---- MODULE Spec2Model ----
(***************************************************************************)
(* A model of the DOTD collector: the snapshot transformation of           *)
(* DOTDCollector (dotd.py) and DOTDScheduler (main.py), the snapshot file   *)
(* both rewrite in _save_data, and the scheduling loop of main.py.          *)
(*                                                                         *)
(* JSON values are records [t |-> tag, v |-> value], tag one of "null",     *)
(* "num", "str", "list", "obj"; an object is a function from its keys, so   *)
(* a key that is missing is missing from DOMAIN.  Snapshot and lock times   *)
(* are whole minutes, the clock of the scheduler whole seconds; a float     *)
(* kept to d decimals is the integer of its 10^-d units.                    *)
(***************************************************************************)
EXTENDS Integers, Sequences, FiniteSets, TLC

VARIABLES
    raw_data,       \* what _fetch_api_data returns in this run (JNull: None)
    clock,          \* the wall clock, seconds
    file,           \* output_dir / "dotd_all_snapshots.json"
    outcome,        \* what the last collect_snapshot call did
    pc,             \* run_scheduled_collection: position in the loop
    running,        \* DOTDScheduler.running
    current_time,   \* run_scheduled_collection: current_time of line 310
    wait_seconds,   \* run_scheduled_collection: wait_seconds
    collections_completed,
    window          \* run_scheduled_collection: start_dt, end_dt, interval

vars == <<raw_data, clock, file, outcome, pc, running, current_time,
          wait_seconds, collections_completed, window>>

(***************************************************************************)
(* Bounds of the model.                                                    *)
(***************************************************************************)
MaxTeams == 3
MaxVotes == 2
MaxHistory == 2

(***************************************************************************)
(* JSON values and Python's view of them.                                  *)
(***************************************************************************)
JNull == [t |-> "null"]
JNum(n) == [t |-> "num", v |-> n]
JStr(s) == [t |-> "str", v |-> s]
JList(s) == [t |-> "list", v |-> s]
JObj(f) == [t |-> "obj", v |-> f]
EmptyDict == [k \in {} |-> JNull]

\* bool(x): None, 0, "", [] and {} are false
Truthy(x) ==
    CASE x.t = "null" -> FALSE
      [] x.t = "num"  -> x.v # 0
      [] x.t = "str"  -> x.v # <<>>
      [] x.t = "list" -> x.v # <<>>
      [] x.t = "obj"  -> DOMAIN x.v # {}

\* key in x, for the values `in` is defined on (a str of the model is never
\* a superstring of a key)
HasKey(x, key) ==
    CASE x.t = "obj"  -> key \in DOMAIN x.v
      [] x.t = "list" -> \E i \in DOMAIN x.v : x.v[i] = JStr(<<key>>)
      [] x.t = "str"  -> FALSE

\* `key in x` raises TypeError for None and for a number
InRaises(x) == x.t \in {"null", "num"}

\* dict.get(key, default)
Get(d, key, default) == IF key \in DOMAIN d THEN d[key] ELSE default

(***************************************************************************)
(* round(x, n) of a float x = num / den, in units of 10^-n: to nearest,    *)
(* ties to even.                                                           *)
(***************************************************************************)
RoundHalfEven(num, den) ==
    LET q == num \div den
        r == num - q * den
    IN  IF 2 * r < den THEN q
        ELSE IF 2 * r > den THEN q + 1
        ELSE IF q % 2 = 0 THEN q ELSE q + 1

(***************************************************************************)
(* Strings.  A string is the sequence of its pieces: an odds string of its *)
(* characters, a locksAt string of its ISO-8601 parts (time, then offset   *)
(* or "Z").  No string of the model holds white space or "_".              *)
(***************************************************************************)
Digits == {"0", "1", "2", "3", "5"}
DigitVal == [c \in Digits |->
    CASE c = "0" -> 0 [] c = "1" -> 1 [] c = "2" -> 2 [] c = "3" -> 3 [] c = "5" -> 5]

\* str.replace(old, new), new a piece or nothing (<<>>)
RECURSIVE Replace(_, _, _)
Replace(s, old, new) ==
    IF s = <<>> THEN <<>>
    ELSE (IF Head(s) = old THEN new ELSE <<Head(s)>>) \o Replace(Tail(s), old, new)

\* old in s
Contains(s, old) == \E i \in DOMAIN s : s[i] \in old

\* s.endswith(piece)
EndsWith(s, piece) == s # <<>> /\ s[Len(s)] = piece

\* int(s) accepts an optional sign and then one digit or more
IsIntLiteral(s) ==
    LET body == IF s # <<>> /\ Head(s) \in {"+", "-"} THEN Tail(s) ELSE s
    IN  body # <<>> /\ \A i \in DOMAIN body : body[i] \in Digits

RECURSIVE DigitsValue(_)
DigitsValue(s) ==
    IF s = <<>> THEN 0
    ELSE 10 * DigitsValue(SubSeq(s, 1, Len(s) - 1)) + DigitVal[s[Len(s)]]

\* int(s), for an s that IsIntLiteral
IntOf(s) ==
    IF Head(s) = "-" THEN 0 - DigitsValue(Tail(s))
    ELSE IF Head(s) = "+" THEN DigitsValue(Tail(s))
    ELSE DigitsValue(s)

Abs(n) == IF n < 0 THEN 0 - n ELSE n

(***************************************************************************)
(* _calculate_implied_probability: the float returned, as num / den.  The  *)
(* bare except turns every exception (a value with no .replace, a string   *)
(* int() rejects) into 0.0.                                                *)
(***************************************************************************)
\* the two formulas the wrong way round: what C7 must tell from the code
ImpliedSwapped(odds_str) ==
    LET odds == IntOf(Replace(odds_str.v, "+", <<>>))
    IN  IF odds > 0 THEN [num |-> odds, den |-> odds + 100]
        ELSE [num |-> 100, den |-> Abs(odds) + 100]

ImpliedNoTry(odds_str) ==
    LET odds == IntOf(Replace(odds_str.v, "+", <<>>))
    IN  IF odds > 0 THEN [num |-> 100, den |-> odds + 100]
        ELSE [num |-> Abs(odds), den |-> Abs(odds) + 100]

CalculateImpliedProbability(odds_str) ==
    IF odds_str.t # "str" THEN [num |-> 0, den |-> 1]
    ELSE IF ~IsIntLiteral(Replace(odds_str.v, "+", <<>>)) THEN [num |-> 0, den |-> 1]
    ELSE ImpliedNoTry(odds_str)

(***************************************************************************)
(* _parse_lock_time.  datetime.fromisoformat accepts a time alone (a naive *)
(* datetime) or a time and a numeric offset (an aware one); a datetime is  *)
(* [aware, local, off], local the wall-clock minutes, off the offset.      *)
(***************************************************************************)
LocalMinutes == ("19:00" :> 1140) @@ ("20:30" :> 1230)
OffsetMinutes == ("+00:00" :> 0) @@ ("+01:00" :> 60) @@ ("-05:00" :> (0 - 300))
PlusPieces == {"+", "+00:00", "+01:00"}

NoDatetime == [none |-> TRUE]

FromIsoFormat(s) ==
    IF Len(s) = 1 /\ s[1] \in DOMAIN LocalMinutes
    THEN [aware |-> FALSE, local |-> LocalMinutes[s[1]], off |-> 0]
    ELSE IF Len(s) = 2 /\ s[1] \in DOMAIN LocalMinutes /\ s[2] \in DOMAIN OffsetMinutes
    THEN [aware |-> TRUE, local |-> LocalMinutes[s[1]], off |-> OffsetMinutes[s[2]]]
    ELSE NoDatetime

ParseLockTime(lock_time_str) ==
    IF lock_time_str.t # "str" THEN NoDatetime
    ELSE IF Contains(lock_time_str.v, PlusPieces) \/ EndsWith(lock_time_str.v, "Z")
    THEN FromIsoFormat(Replace(lock_time_str.v, "Z", <<"+00:00">>))
    ELSE FromIsoFormat(lock_time_str.v)

IsDatetime(d) == "aware" \in DOMAIN d

\* the instant an aware datetime names, and what a naive one is compared by
Instant(d) == d.local - d.off

\* datetime.now(timezone.utc)
UtcNow(minutes) == [aware |-> TRUE, local |-> minutes, off |-> 0]

\* a - b and a < b raise TypeError between a naive and an aware datetime
Mixed(a, b) == a.aware # b.aware


(***************************************************************************)
(* DOTDCollector._assign_ranks_by_votes.                                   *)
(***************************************************************************)
\* d[key] = value on a dict
Put(d, key, value) == (key :> value) @@ d

\* sorted(teams, key=vote_count, reverse=True) is stable: a team goes behind
\* every team with as many votes or more that came before it
InsertByVotes(sorted, team) ==
    LET behind == {i \in DOMAIN sorted : sorted[i].vote_count < team.vote_count}
        at == IF behind = {} THEN Len(sorted) + 1
              ELSE CHOOSE i \in behind : \A j \in behind : i <= j
    IN  SubSeq(sorted, 1, at - 1) \o <<team>> \o SubSeq(sorted, at, Len(sorted))

RECURSIVE SortedByVotes(_)
SortedByVotes(teams) ==
    IF teams = <<>> THEN <<>>
    ELSE InsertByVotes(SortedByVotes(SubSeq(teams, 1, Len(teams) - 1)),
                       teams[Len(teams)])

\* ranks that ignore ties: what C1 must tell from the code
RankOfNoTies(done, team, current_rank) == current_rank

\* the rank the loop gives the team at index i (from 1), done the teams before it
RankOf(done, team, current_rank) ==
    IF done # <<>> /\ team.vote_count = done[Len(done)].vote_count
    THEN done[Len(done)].rank
    ELSE current_rank

\* round((rank - 1) / len(teams_sorted), 4)
RankPercentile(rank, team_count) == RoundHalfEven((rank - 1) * 10000, team_count)

\* the loop of lines 96-108 over teams_sorted[i..], current_rank as it stands
RECURSIVE RankLoop(_, _, _, _)
RankLoop(done, rest, current_rank, team_count) ==
    IF rest = <<>> THEN done
    ELSE LET rank == RankOf(done, Head(rest), current_rank)
             team == Put(Put(Head(rest), "rank", rank),
                         "rank_percentile", RankPercentile(rank, team_count))
         IN  RankLoop(Append(done, team), Tail(rest), Len(done) + 2, team_count)

AssignRanksByVotes(teams) ==
    LET teams_sorted == SortedByVotes(teams)
    IN  RankLoop(<<>>, teams_sorted, 1, Len(teams_sorted))


(***************************************************************************)
(* _process_snapshot, the part dotd.py and main.py share word for word     *)
(* (dotd.py 114-148, main.py 160-194).  A result is [status |-> "none"]    *)
(* (return None), [status |-> "raised"] (an exception leaves the method)   *)
(* or [status |-> "ok", snapshot |-> the record].                          *)
(***************************************************************************)
ReturnNone == [status |-> "none"]
Raised == [status |-> "raised"]
Returned(snapshot) == [status |-> "ok", snapshot |-> snapshot]

\* lines 114-124: the poll, or why there is none
Normalize(raw) ==
    IF ~Truthy(raw) THEN ReturnNone
    ELSE IF InRaises(raw) THEN Raised
    ELSE IF HasKey(raw, "poll") /\ raw.t # "obj" THEN Raised
    ELSE LET poll_data == IF HasKey(raw, "poll") THEN raw.v["poll"] ELSE raw
         IN  IF ~Truthy(poll_data) THEN ReturnNone
             ELSE IF InRaises(poll_data) THEN Raised
             ELSE IF ~HasKey(poll_data, "options") THEN ReturnNone
             ELSE IF poll_data.t # "obj" THEN Raised
             ELSE [status |-> "ok", poll_data |-> poll_data.v]

\* what `for option in poll_data['options']` goes through: the elements of
\* a list, nothing for an empty str or dict
Iterates(options) ==
    \/ options.t = "list"
    \/ options.t \in {"str", "obj"} /\ ~Truthy(options)

OptionList(options) == IF options.t = "list" THEN options.v ELSE <<>>

\* option.get(...) needs a dict, and sum() and the division need numbers
OptionRaises(option) ==
    \/ option.t # "obj"
    \/ Get(option.v, "count", JNum(0)).t # "num"

RECURSIVE SumCounts(_)
SumCounts(options) ==
    IF options = <<>> THEN 0
    ELSE Get(Head(options).v, "count", JNum(0)).v + SumCounts(Tail(options))

\* lines 141-145: the lock times that parse, in option order
RECURSIVE LockTimes(_)
LockTimes(options) ==
    IF options = <<>> THEN <<>>
    ELSE LET lock_time == ParseLockTime(Get(Head(options).v, "locksAt", JStr(<<>>)))
         IN  (IF IsDatetime(lock_time) THEN <<lock_time>> ELSE <<>>)
             \o LockTimes(Tail(options))

\* min(lock_times) compares each element with the least so far
MinRaises(lock_times) == \E i, j \in DOMAIN lock_times : Mixed(lock_times[i], lock_times[j])

\* the first least element
Min(lock_times) ==
    lock_times[CHOOSE i \in DOMAIN lock_times :
        /\ \A j \in DOMAIN lock_times : Instant(lock_times[i]) <= Instant(lock_times[j])
        /\ \A j \in 1..(i - 1) : Instant(lock_times[j]) > Instant(lock_times[i])]

\* lines 130-148
EventInfo(poll_data, options, snapshot_time, total_votes) ==
    LET event_info ==
            [date |-> snapshot_time \div (24 * 60),
             total_teams |-> Len(options),
             sport |-> Get(poll_data, "sport", JStr(<<"unknown">>)),
             snapshot_timestamp |-> UtcNow(snapshot_time),
             poll_id |-> Get(poll_data, "id", JNull),
             total_votes_at_snapshot |-> total_votes]
        lock_times == LockTimes(options)
    IN  IF lock_times # <<>>
        THEN Put(event_info, "first_game_start_time", Min(lock_times))
        ELSE event_info

\* lines 174-180: the team with hours_until_game_starts, when its lock time parses
HoursRaises(option, snapshot_time) ==
    LET game_lock_time == Get(option.v, "locksAt", JNull)
    IN  /\ Truthy(game_lock_time)
        /\ IsDatetime(ParseLockTime(game_lock_time))
        /\ Mixed(ParseLockTime(game_lock_time), UtcNow(snapshot_time))

WithHours(team_data, snapshot_time) ==
    LET lock_time == ParseLockTime(team_data.game_lock_time)
    IN  IF Truthy(team_data.game_lock_time) /\ IsDatetime(lock_time)
        THEN Put(team_data, "hours_until_game_starts",
                 RoundHalfEven((Instant(lock_time) - snapshot_time) * 100, 60))
        ELSE team_data

\* round(vote_count / total_votes * 100, 2)
VotePercentage(vote_count, total_votes) ==
    IF total_votes > 0 THEN RoundHalfEven(vote_count * 10000, total_votes) ELSE 0

\* round(implied_prob, 4)
ImpliedWinProbability(option) ==
    LET implied_prob ==
            CalculateImpliedProbability(Get(option.v, "odds", JStr(<<"+", "1", "0", "0">>)))
    IN  RoundHalfEven(implied_prob.num * 10000, implied_prob.den)

\* lines 188-194: every team against teams[0]
LeaderDifferentials(teams) ==
    [i \in DOMAIN teams |->
        Put(Put(teams[i], "votes_behind_leader",
                teams[1].vote_count - teams[i].vote_count),
            "percentage_behind_leader",
            teams[1].current_vote_percentage - teams[i].current_vote_percentage)]

ApiUrl == JStr(<<"https://api.real.vg/polls/270619">>)


(***************************************************************************)
(* DOTDCollector._process_snapshot (dotd.py).                              *)
(***************************************************************************)
\* lines 153-180
DotdTeamData(option, total_votes, snapshot_time) ==
    LET vote_count == Get(option.v, "count", JNum(0)).v
        team_data ==
            [team_id |-> Get(option.v, "id", JNull),
             american_odds |-> Get(option.v, "odds", JNull),
             current_vote_percentage |-> VotePercentage(vote_count, total_votes),
             vote_count |-> vote_count,
             original_priority |-> Get(option.v, "priority", JNum(0)),
             game_lock_time |-> Get(option.v, "locksAt", JNull),
             implied_win_probability |-> ImpliedWinProbability(option)]
    IN  WithHours(team_data, snapshot_time)

DotdRaises(options, snapshot_time) ==
    \/ ~Iterates(options)
    \/ \E i \in DOMAIN OptionList(options) : OptionRaises(OptionList(options)[i])
    \/ MinRaises(LockTimes(OptionList(options)))
    \/ \E i \in DOMAIN OptionList(options) :
           HoursRaises(OptionList(options)[i], snapshot_time)

DotdSnapshot(poll_data, snapshot_time) ==
    LET options == OptionList(poll_data["options"])
        total_votes == SumCounts(options)
        team_list == [i \in DOMAIN options |->
                          DotdTeamData(options[i], total_votes, snapshot_time)]
        ranked == AssignRanksByVotes(team_list)
        teams == IF ranked # <<>> THEN LeaderDifferentials(ranked) ELSE ranked
    IN  [collection_info |-> [api_url |-> ApiUrl,
                              collection_time |-> UtcNow(snapshot_time),
                              data_format_version |-> "1.1"],
         event_info |-> EventInfo(poll_data, options, snapshot_time, total_votes),
         teams |-> teams]

DotdProcessSnapshot(raw, snapshot_time) ==
    LET poll == Normalize(raw)
    IN  IF poll.status # "ok" THEN poll
        ELSE IF DotdRaises(poll.poll_data["options"], snapshot_time) THEN Raised
        ELSE Returned(DotdSnapshot(poll.poll_data, snapshot_time))

(***************************************************************************)
(* DOTDScheduler._process_snapshot (main.py): the rank is the option's     *)
(* priority, and the teams are sorted by it.                               *)
(***************************************************************************)
\* lines 199-227
MainTeamData(option, total_votes, team_count, snapshot_time) ==
    LET vote_count == Get(option.v, "count", JNum(0)).v
        priority == Get(option.v, "priority", JNum(0)).v
        team_data ==
            [team_id |-> Get(option.v, "id", JNull),
             american_odds |-> Get(option.v, "odds", JNull),
             current_vote_percentage |-> VotePercentage(vote_count, total_votes),
             vote_count |-> vote_count,
             rank |-> priority,
             game_lock_time |-> Get(option.v, "locksAt", JNull),
             implied_win_probability |-> ImpliedWinProbability(option),
             rank_percentile |-> RoundHalfEven(priority * 10000, team_count)]
    IN  WithHours(team_data, snapshot_time)

\* teams.sort(key=rank) is stable: a team goes ahead of the teams of larger rank
InsertByRank(sorted, team) ==
    LET behind == {i \in DOMAIN sorted : sorted[i].rank > team.rank}
        at == IF behind = {} THEN Len(sorted) + 1
              ELSE CHOOSE i \in behind : \A j \in behind : i <= j
    IN  SubSeq(sorted, 1, at - 1) \o <<team>> \o SubSeq(sorted, at, Len(sorted))

RECURSIVE SortedByRank(_)
SortedByRank(teams) ==
    IF teams = <<>> THEN <<>>
    ELSE InsertByRank(SortedByRank(SubSeq(teams, 1, Len(teams) - 1)),
                      teams[Len(teams)])

MainRaises(options, snapshot_time) ==
    \/ DotdRaises(options, snapshot_time)
    \/ \E i \in DOMAIN OptionList(options) :
           Get(OptionList(options)[i].v, "priority", JNum(0)).t # "num"

MainSnapshot(poll_data, snapshot_time) ==
    LET options == OptionList(poll_data["options"])
        total_votes == SumCounts(options)
        team_list == [i \in DOMAIN options |->
                          MainTeamData(options[i], total_votes, Len(options), snapshot_time)]
        sorted == SortedByRank(team_list)
        teams == IF sorted # <<>> THEN LeaderDifferentials(sorted) ELSE sorted
    IN  [collection_info |-> [api_url |-> ApiUrl,
                              collection_time |-> UtcNow(snapshot_time),
                              data_format_version |-> "1.0"],
         event_info |-> EventInfo(poll_data, options, snapshot_time, total_votes),
         teams |-> teams]

MainProcessSnapshot(raw, snapshot_time) ==
    LET poll == Normalize(raw)
    IN  IF poll.status # "ok" THEN poll
        ELSE IF MainRaises(poll.poll_data["options"], snapshot_time) THEN Raised
        ELSE Returned(MainSnapshot(poll.poll_data, snapshot_time))


(***************************************************************************)
(* _save_data (dotd.py 20-48, main.py 90-118, the same text).  The file is *)
(* [kind, entries]: "absent"; "list", a JSON list of the entries; "legacy",*)
(* one JSON value that is no list (entries holds it); "corrupt", text that *)
(* json.load rejects, entries the records still whole in it.  io is what   *)
(* the file system does with the write: "ok", "open_error" (open(..., 'w') *)
(* raises and the file is untouched) or "dump_error" (the file is          *)
(* truncated and the write stops after the first `kept` records: the disk  *)
(* is full, or the process is killed).  _save_data catches what is raised. *)
(***************************************************************************)
Absent == [kind |-> "absent", entries |-> <<>>]
ListFile(entries) == [kind |-> "list", entries |-> entries]
LegacyFile(record) == [kind |-> "legacy", entries |-> <<record>>]
CorruptFile(entries) == [kind |-> "corrupt", entries |-> entries]

\* lines 26-37: all_snapshots before the append
LoadExisting(f) == IF f.kind \in {"list", "legacy"} THEN f.entries ELSE <<>>

\* lines 40-44: the file after the call
SaveData(f, snapshot_data, io) ==
    LET all_snapshots == Append(LoadExisting(f), snapshot_data)
    IN  CASE io.write = "ok" -> ListFile(all_snapshots)
          [] io.write = "open_error" -> f
          [] io.write = "dump_error" -> CorruptFile(SubSeq(all_snapshots, 1, io.kept))

\* the call wrote the whole list
Saved(io) == io.write = "ok"

IoOutcomes(f) ==
    {[write |-> "ok", kept |-> 0], [write |-> "open_error", kept |-> 0]}
    \cup {[write |-> "dump_error", kept |-> k] : k \in 0..Len(LoadExisting(f))}

(***************************************************************************)
(* The payloads the API serves in the model.                               *)
(***************************************************************************)
Missing == [t |-> "missing"]
With(d, key, value) == IF value = Missing THEN d ELSE Put(d, key, value)

OddsValues ==
    {JStr(<<"+", "1", "5", "0">>), JStr(<<"-", "2", "0", "0">>), JStr(<<"0">>),
     JStr(<<"x">>), JNull, Missing}

LockValues ==
    {JStr(<<"19:00", "Z">>), JStr(<<"19:00", "+01:00">>), JStr(<<"20:30", "-05:00">>),
     JStr(<<"19:00">>), JStr(<<"soon">>), JStr(<<>>), JNull, Missing}

\* the priorities of n options: none given, the order of the list, its reverse
Priorities(n) ==
    {[i \in 1..n |-> Missing], [i \in 1..n |-> JNum(i)], [i \in 1..n |-> JNum(n + 1 - i)]}

Option(id, count, priority, odds, locksAt) ==
    JObj(With(With(With([id |-> JNum(id), count |-> JNum(count)],
                        "priority", priority), "odds", odds), "locksAt", locksAt))

\* option lists that differ in votes and priorities, in odds, in lock times
VoteLists ==
    UNION {{[i \in 1..n |-> Option(i, f[i], priority[i],
                                   JStr(<<"+", "1", "5", "0">>), JStr(<<"19:00", "Z">>))] :
                f \in [1..n -> 0..MaxVotes], priority \in Priorities(n)} : n \in 0..MaxTeams}
OddsLists ==
    UNION {{[i \in 1..n |-> Option(i, i, Missing, f[i], JStr(<<"19:00", "Z">>))] :
                f \in [1..n -> OddsValues]} : n \in 1..(MaxTeams - 1)}
LockLists ==
    UNION {{[i \in 1..n |-> Option(i, i, Missing, JStr(<<"-", "2", "0", "0">>), f[i])] :
                f \in [1..n -> LockValues]} : n \in 1..(MaxTeams - 1)}
OptionLists == VoteLists \cup OddsLists \cup LockLists

Wrapped(options) ==
    JObj([poll |-> JObj([options |-> options, sport |-> JStr(<<"mlb">>),
                         id |-> JNum(270619)])])
Direct(options) == JObj([options |-> options])

\* payloads without a usable option list
OddPayloads ==
    {JObj(EmptyDict), Wrapped(JNull), Wrapped(JStr(<<>>)), Wrapped(JList(<<JNum(1)>>)),
     Direct(JNum(7)), JObj([poll |-> JNull]), JObj([poll |-> JObj(EmptyDict)]),
     JObj([poll |-> JNum(7)]), JObj([sport |-> JStr(<<"mlb">>)]),
     JObj([poll |-> JObj([sport |-> JStr(<<"mlb">>)])]),
     JNum(7), JStr(<<"Bad Gateway">>), JList(<<JStr(<<"poll">>)>>), JList(<<>>)}

Payloads ==
    {Wrapped(JList(options)) : options \in OptionLists}
    \cup {Direct(JList(options)) : options \in OptionLists}
    \cup OddPayloads

\* datetime.now(timezone.utc), in minutes, when the clock reads k seconds
SnapshotTime(k) == 1110 + k \div 60

(***************************************************************************)
(* collect_snapshot (dotd.py 206-237) and collect_single_snapshot          *)
(* (main.py 252-279): fetch, process, save.  _fetch_api_data returns None  *)
(* for every failure of the request.                                       *)
(***************************************************************************)
\* the seconds from one run of the program to the next
RunGap == 7 * 60

SamplePayload ==
    Direct(JList(<<Option(1, 1, JNum(1), JStr(<<"+", "1", "5", "0">>),
                          JStr(<<"19:00", "Z">>))>>))

\* the times of the model's calls
SampleTimes == {SnapshotTime(RunGap * k) : k \in 0..MaxHistory}

\* the records the two entry points make of the sample payload
DotdSamples == {DotdProcessSnapshot(SamplePayload, t).snapshot : t \in SampleTimes}

MainSamples == {MainProcessSnapshot(SamplePayload, t).snapshot : t \in SampleTimes}

SampleSnapshots == DotdSamples \cup MainSamples

\* a record that an earlier version stored on its own, not in a list
LegacySnapshot == MainProcessSnapshot(SamplePayload, SnapshotTime(0)).snapshot

\* the record an earlier run of the program stored
EarlierSnapshot == DotdProcessSnapshot(SamplePayload, SnapshotTime(0)).snapshot

NoCall == [entry |-> "none"]

\* what a collect call did: returned False, raised, or saved and returned True
Collected(entry, fetched, snapshot_time, result, io) ==
    [entry |-> entry, fetched |-> Truthy(fetched), time |-> snapshot_time,
     result |-> result, io |-> io,
     returned |-> IF ~Truthy(fetched) \/ result.status = "none" THEN "False"
                  ELSE IF result.status = "raised" THEN "raised"
                  ELSE "True"]

FileAfter(f, fetched, result, io) ==
    IF Truthy(fetched) /\ result.status = "ok"
    THEN SaveData(f, result.snapshot, io)
    ELSE f

NoIo == [write |-> "none", kept |-> 0]

\* the io of a call: nothing touches the file unless there is a snapshot
IoOf(f, fetched, result) ==
    IF Truthy(fetched) /\ result.status = "ok" THEN IoOutcomes(f) ELSE {NoIo}

CollectorCollect(fetched) ==
    LET result == IF Truthy(fetched) THEN DotdProcessSnapshot(fetched, SnapshotTime(clock))
                  ELSE ReturnNone
    IN  \E io \in IoOf(file, fetched, result) :
            /\ outcome' = Collected("dotd", fetched, SnapshotTime(clock), result, io)
            /\ file' = FileAfter(file, fetched, result, io)

SchedulerCollect(fetched) ==
    LET result == IF Truthy(fetched) THEN MainProcessSnapshot(fetched, SnapshotTime(clock))
                  ELSE ReturnNone
    IN  \E io \in IoOf(file, fetched, result) :
            /\ outcome' = Collected("main", fetched, SnapshotTime(clock), result, io)
            /\ file' = FileAfter(file, fetched, result, io)

SchedIdle ==
    /\ pc = "off"
    /\ running = TRUE
    /\ current_time = 0
    /\ wait_seconds = 0
    /\ collections_completed = 0
    /\ window = [start_dt |-> 0, end_dt |-> 0, interval |-> 0]

SchedVars == <<pc, running, current_time, wait_seconds, collections_completed, window>>

\* one run of the program, over the file that earlier runs left
Init ==
    /\ raw_data \in Payloads
    /\ clock = RunGap
    /\ file \in {Absent, ListFile(<<EarlierSnapshot>>)}
    /\ outcome = NoCall
    /\ SchedIdle

CollectSnapshot ==
    /\ outcome = NoCall
    /\ \E fetched \in {JNull, raw_data} : CollectorCollect(fetched)
    /\ UNCHANGED <<raw_data, clock, SchedVars>>

CollectSingleSnapshot ==
    /\ outcome = NoCall
    /\ \E fetched \in {JNull, raw_data} : SchedulerCollect(fetched)
    /\ UNCHANGED <<raw_data, clock, SchedVars>>

Next == CollectSnapshot \/ CollectSingleSnapshot

Spec == Init /\ [][Next]_vars


(***************************************************************************)
(* What the claims speak of.                                               *)
(***************************************************************************)
\* the normalized poll: the value under 'poll' when the key is there, else the payload
PollOf(raw) == IF raw.t = "obj" /\ "poll" \in DOMAIN raw.v THEN raw.v["poll"] ELSE raw

\* the poll has an option list
HasOptionList(raw) ==
    /\ PollOf(raw).t = "obj"
    /\ "options" \in DOMAIN PollOf(raw).v
    /\ PollOf(raw).v["options"].t = "list"

GivenOptions(raw) == IF HasOptionList(raw) THEN PollOf(raw).v["options"].v ELSE <<>>

\* a non-empty list of options, each a mapping with a numeric count
WellFormedPoll(raw) ==
    /\ HasOptionList(raw)
    /\ GivenOptions(raw) # <<>>
    /\ \A i \in DOMAIN GivenOptions(raw) :
          /\ GivenOptions(raw)[i].t = "obj"
          /\ Get(GivenOptions(raw)[i].v, "count", JNum(0)).t = "num"

\* the last call fetched the payload and returned a snapshot record
Produced == outcome.entry \in {"dotd", "main"} /\ outcome.fetched /\ outcome.result.status = "ok"
DotdProduced == Produced /\ outcome.entry = "dotd"
MainProduced == Produced /\ outcome.entry = "main"
Teams == outcome.result.snapshot.teams

\* the place in the option list of the team at place k of the record
InputIndex(k) ==
    CHOOSE i \in DOMAIN GivenOptions(raw_data) :
        GivenOptions(raw_data)[i].v["id"] = Teams[k].team_id

\* the place of the first team with as many votes as the team at place k
FirstOfGroup(k) ==
    CHOOSE j \in DOMAIN Teams :
        /\ Teams[j].vote_count = Teams[k].vote_count
        /\ \A h \in 1..(j - 1) : Teams[h].vote_count # Teams[k].vote_count

\* C1: the record of _assign_ranks_by_votes holds the teams given, each
\* once, by votes non-increasing, teams of equal votes in the order given,
\* and the rank of a team is the place of the first team with its votes.
C1_CompetitionRanking ==
    DotdProduced =>
        /\ Len(Teams) = Len(GivenOptions(raw_data))
        /\ \A i \in DOMAIN GivenOptions(raw_data) :
              \E k \in DOMAIN Teams :
                 /\ Teams[k].team_id = GivenOptions(raw_data)[i].v["id"]
                 /\ Teams[k].vote_count = Get(GivenOptions(raw_data)[i].v, "count", JNum(0)).v
        /\ \A j, k \in DOMAIN Teams :
              j < k => /\ Teams[j].vote_count >= Teams[k].vote_count
                       /\ (Teams[j].vote_count = Teams[k].vote_count
                              => InputIndex(j) < InputIndex(k))
        /\ \A k \in DOMAIN Teams : Teams[k].rank = FirstOfGroup(k)

\* a tie for the lead that the sort had to move, and the rank skipped after it
C1_Witness ==
    /\ DotdProduced
    /\ Len(Teams) = 3
    /\ Teams[1].team_id # JNum(1)
    /\ <<Teams[1].rank, Teams[2].rank, Teams[3].rank>> = <<1, 1, 3>>


\* a step of collect_snapshot or collect_single_snapshot that fetched the payload
FetchedStep == outcome = NoCall /\ outcome' # NoCall /\ outcome'.fetched

\* C2: when the normalized poll has no option list, an empty one, or is
\* malformed, the call produces no snapshot, reports failure and leaves
\* the stored history as it was.
C2_NoOptionsNoSnapshot ==
    [][FetchedStep /\ ~WellFormedPoll(raw_data)
          => /\ outcome'.result.status = "none"
             /\ outcome'.returned = "False"
             /\ file' = file]_vars

\* an empty option list, collected and stored as a record of no teams
C2_Witness ==
    /\ Produced
    /\ HasOptionList(raw_data)
    /\ GivenOptions(raw_data) = <<>>
    /\ outcome.returned = "True"
    /\ file.kind = "list"
    /\ Len(file.entries) = 1
    /\ file.entries[1].teams = <<>>

\* C4: in every record of either entry point, more votes never go with a
\* larger rank, equal votes go with equal ranks, and the teams are in the
\* order of their ranks.
C4_RankFollowsVotes ==
    Produced =>
        \A j, k \in DOMAIN Teams :
           /\ Teams[j].vote_count > Teams[k].vote_count => Teams[j].rank <= Teams[k].rank
           /\ Teams[j].vote_count = Teams[k].vote_count => Teams[j].rank = Teams[k].rank
           /\ j < k => Teams[j].rank <= Teams[k].rank

\* main.py ranks the team with fewer votes first
C4_Witness ==
    /\ MainProduced
    /\ Len(Teams) = 2
    /\ Teams[1].vote_count < Teams[2].vote_count
    /\ Teams[1].rank < Teams[2].rank

\* C5: rank_percentile is (rank - 1) / team_count rounded to 4 decimals, so
\* 0.0 for a team of rank 1 and below 1.0 for every team.
C5_RankPercentile ==
    Produced =>
        \A k \in DOMAIN Teams :
           /\ Teams[k].rank_percentile = RoundHalfEven((Teams[k].rank - 1) * 10000, Len(Teams))
           /\ Teams[k].rank = 1 => Teams[k].rank_percentile = 0
           /\ Teams[k].rank_percentile < 10000

\* main.py gives the only team, of rank 1, the percentile 1.0
C5_Witness ==
    /\ MainProduced
    /\ Len(Teams) = 1
    /\ Teams[1].rank = 1
    /\ Teams[1].rank_percentile = 10000

\* C6: the first team of a record has rank 1 and is 0 votes and 0 percent
\* behind the leader, so is every team of rank 1, and votes_behind_leader
\* is the leader's votes less the team's, never negative.
C6_LeaderDifferentials ==
    Produced /\ Teams # <<>> =>
        /\ Teams[1].rank = 1
        /\ Teams[1].votes_behind_leader = 0
        /\ Teams[1].percentage_behind_leader = 0
        /\ \A k \in DOMAIN Teams :
              /\ Teams[k].rank = 1 => Teams[k].votes_behind_leader = 0
              /\ Teams[k].votes_behind_leader = Teams[1].vote_count - Teams[k].vote_count
              /\ Teams[k].votes_behind_leader >= 0

\* main.py puts a team ahead of the leader by votes
C6_Witness ==
    /\ MainProduced
    /\ Len(Teams) = 2
    /\ Teams[1].rank = 1
    /\ Teams[2].votes_behind_leader < 0


\* the same claims of the records of dotd.py alone
Dotd_RankFollowsVotes == outcome.entry = "dotd" => C4_RankFollowsVotes
Dotd_RankPercentile == outcome.entry = "dotd" => C5_RankPercentile
Dotd_LeaderDifferentials == outcome.entry = "dotd" => C6_LeaderDifferentials

\* the odds of the option behind the team at place k, '+100' when it has none
OddsOf(option) == Get(option.v, "odds", JStr(<<"+", "1", "0", "0">>))

\* the odds are a string that reads as an integer once every '+' is gone
Parseable(odds) == odds.t = "str" /\ IsIntLiteral(Replace(odds.v, "+", <<>>))

\* the lock time of an option is a string that reads as a naive datetime
NaiveLock(option) ==
    LET lock_time == ParseLockTime(Get(option.v, "locksAt", JNull))
    IN  IsDatetime(lock_time) /\ ~lock_time.aware

\* C7: the implied probability of odds that parse is 100 / (odds + 100)
\* for positive odds and |odds| / (|odds| + 100) otherwise, within [0, 1];
\* of odds that do not parse it is 0.0 and nothing is raised; the record
\* holds it rounded to 4 decimals.
C7_ImpliedProbability ==
    /\ outcome.entry \in {"dotd", "main"} /\ outcome.fetched /\ WellFormedPoll(raw_data)
       /\ (\A i \in DOMAIN GivenOptions(raw_data) : ~NaiveLock(GivenOptions(raw_data)[i]))
          => outcome.result.status = "ok"
    /\ Produced =>
         \A k \in DOMAIN Teams :
            LET odds == OddsOf(GivenOptions(raw_data)[InputIndex(k)])
                n == IntOf(Replace(odds.v, "+", <<>>))
                p == CalculateImpliedProbability(odds)
            IN  /\ 0 <= p.num /\ p.num <= p.den
                /\ Teams[k].implied_win_probability = RoundHalfEven(p.num * 10000, p.den)
                /\ Parseable(odds) /\ n > 0 => p.num * (n + 100) = 100 * p.den
                /\ Parseable(odds) /\ n <= 0 => p.num * (Abs(n) + 100) = Abs(n) * p.den
                /\ ~Parseable(odds) => p.num = 0 /\ Teams[k].implied_win_probability = 0

\* a record with the odds -200 at 0.6667 and odds that do not parse at 0.0
C7_Witness ==
    /\ Produced
    /\ \E j, k \in DOMAIN Teams :
          /\ Teams[j].american_odds = JStr(<<"-", "2", "0", "0">>)
          /\ Teams[j].implied_win_probability = 6667
          /\ Teams[k].american_odds = JStr(<<"x">>)
          /\ Teams[k].implied_win_probability = 0

\* the payload with the value under key of option i replaced
RECURSIVE WithOption(_, _, _, _)
WithOption(raw, i, key, value) ==
    IF raw.t = "obj" /\ "poll" \in DOMAIN raw.v
    THEN JObj(Put(raw.v, "poll", WithOption(raw.v["poll"], i, key, value)))
    ELSE JObj(Put(raw.v, "options",
              JList([j \in DOMAIN raw.v["options"].v |->
                        IF j = i THEN JObj(Put(raw.v["options"].v[j].v, key, value))
                        ELSE raw.v["options"].v[j]])))

\* the record of the team with the id, in a list of team records
TeamWithId(teams, id) == teams[CHOOSE k \in DOMAIN teams : teams[k].team_id = id]

\* the lock time of the option is missing, empty or does not parse
BadLock(option) == ~IsDatetime(ParseLockTime(Get(option.v, "locksAt", JStr(<<>>))))

\* the other teams of the record are as in the record of the payload
\* with the value under key of option i well-formed
OthersAsWith(i, key, value) ==
    LET other == DotdProcessSnapshot(WithOption(raw_data, i, key, value), outcome.time)
    IN  /\ other.status = "ok"
        /\ \A j \in DOMAIN GivenOptions(raw_data) :
              j # i => TeamWithId(Teams, GivenOptions(raw_data)[j].v["id"])
                       = TeamWithId(other.snapshot.teams, GivenOptions(raw_data)[j].v["id"])

\* C8: an option whose locksAt is missing, empty or does not parse, or
\* whose odds do not parse, still leaves a record of every team, in which
\* that team has no hours_until_game_starts (or the probability 0.0) and
\* the other teams are as they are when the value is well-formed.
C8_LocalDegradation ==
    outcome.entry = "dotd" /\ outcome.fetched /\ WellFormedPoll(raw_data) =>
        \A i \in DOMAIN GivenOptions(raw_data) :
           LET option == GivenOptions(raw_data)[i]
           IN  /\ BadLock(option) =>
                     /\ outcome.result.status = "ok"
                     /\ Len(Teams) = Len(GivenOptions(raw_data))
                     /\ "hours_until_game_starts"
                            \notin DOMAIN TeamWithId(Teams, option.v["id"])
                     /\ OthersAsWith(i, "locksAt", JStr(<<"19:00", "Z">>))
               /\ ~Parseable(OddsOf(option)) =>
                     /\ outcome.result.status = "ok"
                     /\ Len(Teams) = Len(GivenOptions(raw_data))
                     /\ TeamWithId(Teams, option.v["id"]).implied_win_probability = 0
                     /\ OthersAsWith(i, "odds", JStr(<<"+", "1", "5", "0">>))

\* an option without a lock time beside one with a naive lock time: no record
C8_Witness ==
    /\ outcome.entry = "dotd" /\ outcome.fetched /\ WellFormedPoll(raw_data)
    /\ \E i, j \in DOMAIN GivenOptions(raw_data) :
          BadLock(GivenOptions(raw_data)[i]) /\ NaiveLock(GivenOptions(raw_data)[j])
    /\ outcome.result.status = "raised"

\* the claim of C8 for the payloads without a naive lock time
Dotd_LocalDegradation ==
    WellFormedPoll(raw_data)
    /\ (\A i \in DOMAIN GivenOptions(raw_data) : ~NaiveLock(GivenOptions(raw_data)[i]))
        => C8_LocalDegradation

\* every locksAt of the payload is a string that reads as a datetime
AllLocksAccepted ==
    \A i \in DOMAIN GivenOptions(raw_data) : ~BadLock(GivenOptions(raw_data)[i])

\* the instant of the lock time of an option
LockInstant(option) == Instant(ParseLockTime(Get(option.v, "locksAt", JNull)))

\* C9: a payload whose lock times are offset-qualified, 'Z'-suffixed or
\* naive strings is processed without an error, every team gets the hours
\* from the snapshot to its lock time rounded to 2 decimals, and
\* first_game_start_time is the least of the lock times.
C9_AcceptedLockTimes ==
    outcome.entry = "dotd" /\ outcome.fetched /\ WellFormedPoll(raw_data) /\ AllLocksAccepted =>
        /\ outcome.result.status = "ok"
        /\ \A i \in DOMAIN GivenOptions(raw_data) :
              TeamWithId(Teams, GivenOptions(raw_data)[i].v["id"]).hours_until_game_starts
                 = RoundHalfEven((LockInstant(GivenOptions(raw_data)[i]) - outcome.time) * 100, 60)
        /\ "first_game_start_time" \in DOMAIN outcome.result.snapshot.event_info
        /\ \A i \in DOMAIN GivenOptions(raw_data) :
              Instant(outcome.result.snapshot.event_info.first_game_start_time)
                 <= LockInstant(GivenOptions(raw_data)[i])
        /\ \E i \in DOMAIN GivenOptions(raw_data) :
              outcome.result.snapshot.event_info.first_game_start_time
                 = ParseLockTime(Get(GivenOptions(raw_data)[i].v, "locksAt", JNull))

\* a payload whose only lock time is naive: the subtraction raises
C9_Witness ==
    /\ outcome.entry = "dotd" /\ outcome.fetched /\ WellFormedPoll(raw_data)
    /\ Len(GivenOptions(raw_data)) = 1
    /\ NaiveLock(GivenOptions(raw_data)[1])
    /\ outcome.result.status = "raised"

\* the claim of C9 for the payloads whose lock times all carry an offset or a 'Z'
Dotd_AwareLockTimes ==
    WellFormedPoll(raw_data)
    /\ (\A i \in DOMAIN GivenOptions(raw_data) : ~NaiveLock(GivenOptions(raw_data)[i]))
        => C9_AcceptedLockTimes


(***************************************************************************)
(* The snapshot file under calls of _save_data alone.                      *)
(***************************************************************************)
SaveCall(entry, snapshot_data, io) ==
    [entry |-> entry, snapshot_data |-> snapshot_data, io |-> io]

InitStore ==
    /\ file \in {Absent, ListFile(<<>>), LegacyFile(LegacySnapshot)}
    /\ raw_data = JNull
    /\ clock = 0
    /\ outcome = NoCall
    /\ SchedIdle

\* DOTDCollector._save_data
CollectorSaveData ==
    /\ Len(file.entries) < MaxHistory
    /\ \E snapshot_data \in DotdSamples, io \in IoOutcomes(file) :
          /\ file' = SaveData(file, snapshot_data, io)
          /\ outcome' = SaveCall("dotd", snapshot_data, io)
    /\ UNCHANGED <<raw_data, clock, SchedVars>>

\* DOTDScheduler._save_data
SchedulerSaveData ==
    /\ Len(file.entries) < MaxHistory
    /\ \E snapshot_data \in MainSamples, io \in IoOutcomes(file) :
          /\ file' = SaveData(file, snapshot_data, io)
          /\ outcome' = SaveCall("main", snapshot_data, io)
    /\ UNCHANGED <<raw_data, clock, SchedVars>>

NextStore == CollectorSaveData \/ SchedulerSaveData

SpecStore == InitStore /\ [][NextStore]_vars

\* C3: a call of _save_data that writes the file leaves in it the history
\* it held (the legacy record, when it held one record and no list) and
\* then the new snapshot, whatever the file held before the call.
C3_AppendOnly ==
    [][outcome' # outcome /\ Saved(outcome'.io)
          => file' = ListFile(Append(file.entries, outcome'.snapshot_data))]_vars

\* the claim of C3 for a file that is absent or holds JSON
Store_AppendOnlyOfJson ==
    [][outcome' # outcome /\ Saved(outcome'.io) /\ file.kind # "corrupt"
          => file' = ListFile(Append(file.entries, outcome'.snapshot_data))]_vars


(***************************************************************************)
(* run_scheduled_collection (main.py 281-361).  Times are seconds on the   *)
(* clock; start_dt and end_dt are what _parse_schedule_time made of the    *)
(* arguments.  pc is the position in the loop: "loop" (line 309),          *)
(* "collect" (317), "sleep" (329) and "sleeping" (332, inside time.sleep),  *)
(* "wait_start" (346) and "waiting" (349, inside time.sleep), "done"       *)
(* (after the loop, 359) and "crashed" (an exception left the method;      *)
(* main() reports it and the process ends).                                *)
(***************************************************************************)
SleepSlice == 5
WaitSlice == 60
MaxWindow == 3
MaxInterval == 2

\* windows whose end follows their start
NormalWindows ==
    {[start_dt |-> 60 * s, end_dt |-> 60 * e, interval |-> i] :
        s \in 0..1, e \in 2..MaxWindow, i \in 1..MaxInterval}

\* windows whose end_dt is earlier than their start_dt (an end date and time
\* that _parse_schedule_time puts before the start)
OvernightWindows ==
    {[start_dt |-> 60 * (MaxWindow - 1), end_dt |-> 60 * e, interval |-> i] :
        e \in 0..1, i \in 1..MaxInterval}

Windows == NormalWindows \cup OvernightWindows

\* the clock after which the model starts no further collection; no window
\* whose end follows its start is open that late
Horizon == 60 * (MaxWindow + 1)

\* the clock when the method is called: before, inside and after the window
StartClocks == {0, 30, 60 * MaxWindow + 60}

\* the seconds a collection takes
FetchSeconds == {0, 5}

\* what _fetch_api_data returns to the scheduler: None after a failed
\* request, a payload without options, an option list, options that are null
SchedPayloads ==
    {JNull, JObj([sport |-> JStr(<<"mlb">>)]), SamplePayload, Direct(JNull)}

IsWithinSchedule(now, start_dt, end_dt) ==
    IF end_dt < start_dt
    THEN now >= start_dt \/ now <= end_dt
    ELSE start_dt <= now /\ now <= end_dt

GetNextRunTime(now, interval_minutes) == now + 60 * interval_minutes

\* lines 318-319
Completed(count, returned) == IF returned = "True" THEN count + 1 ELSE count

InitSched ==
    /\ raw_data = JNull
    /\ clock \in StartClocks
    /\ file = Absent
    /\ outcome = NoCall
    /\ pc = "loop"
    /\ running = TRUE
    /\ current_time = 0
    /\ wait_seconds = 0
    /\ collections_completed = 0
    /\ window \in Windows

\* lines 309-313 and 340-357: the loop condition and the choice of branch
LoopTop ==
    /\ pc = "loop"
    /\ running /\ IsWithinSchedule(clock, window.start_dt, window.end_dt) => clock < Horizon
    /\ IF ~running
       THEN /\ pc' = "done"
            /\ UNCHANGED <<clock, current_time, wait_seconds>>
       ELSE /\ current_time' = clock
            /\ IF IsWithinSchedule(clock, window.start_dt, window.end_dt)
               THEN /\ pc' = "collect"
                    /\ UNCHANGED <<clock, wait_seconds>>
               ELSE IF clock < window.start_dt
               THEN /\ wait_seconds' = window.start_dt - clock
                    /\ pc' = "wait_start"
                    /\ UNCHANGED clock
               ELSE IF clock > window.end_dt
               THEN /\ pc' = "done"
                    /\ UNCHANGED <<clock, wait_seconds>>
               ELSE /\ clock' = clock + WaitSlice
                    /\ pc' = "loop"
                    /\ UNCHANGED wait_seconds
    /\ UNCHANGED <<raw_data, file, outcome, running, collections_completed, window>>

\* lines 314-338: one collection, the count, and the wait that follows
CollectCycle ==
    /\ pc = "collect"
    /\ \E fetched \in SchedPayloads, seconds \in FetchSeconds :
          /\ raw_data' = fetched
          /\ SchedulerCollect(fetched)
          /\ clock' = clock + seconds
    /\ IF outcome'.returned = "raised"
       THEN /\ pc' = "crashed"
            /\ UNCHANGED <<collections_completed, wait_seconds>>
       ELSE /\ collections_completed' = Completed(collections_completed, outcome'.returned)
            /\ IF IsWithinSchedule(clock', window.start_dt, window.end_dt)
               THEN /\ wait_seconds' = GetNextRunTime(clock', window.interval) - clock'
                    /\ pc' = IF wait_seconds' > 0 THEN "sleep" ELSE "loop"
               ELSE /\ pc' = "done"
                    /\ UNCHANGED wait_seconds
    /\ UNCHANGED <<running, current_time, window>>

\* min(5, wait_seconds) and min(60, wait_seconds)
SleepTime(slice, seconds) == IF slice < seconds THEN slice ELSE seconds

\* a sleep loop that does not look at running: what C13 must tell from the code
SleepOn ==
    /\ pc = "sleep"
    /\ pc' = IF wait_seconds > 0 THEN "sleeping" ELSE "loop"
    /\ UNCHANGED <<raw_data, clock, file, outcome, running, current_time, wait_seconds,
                   collections_completed, window>>

\* lines 329-331: the condition of the sleep loop between collections
Sleep ==
    /\ pc = "sleep"
    /\ pc' = IF wait_seconds > 0 /\ running THEN "sleeping" ELSE "loop"
    /\ UNCHANGED <<raw_data, clock, file, outcome, running, current_time, wait_seconds,
                   collections_completed, window>>

\* lines 332-333: time.sleep(sleep_time) returns
Sleeping ==
    /\ pc = "sleeping"
    /\ clock' = clock + SleepTime(SleepSlice, wait_seconds)
    /\ wait_seconds' = wait_seconds - SleepTime(SleepSlice, wait_seconds)
    /\ pc' = "sleep"
    /\ UNCHANGED <<raw_data, file, outcome, running, current_time,
                   collections_completed, window>>

\* lines 346-348: the condition of the wait for the start of the window
WaitStart ==
    /\ pc = "wait_start"
    /\ pc' = IF wait_seconds > 0 /\ running /\ clock < window.start_dt
             THEN "waiting" ELSE "loop"
    /\ UNCHANGED <<raw_data, clock, file, outcome, running, current_time, wait_seconds,
                   collections_completed, window>>

\* lines 349-350: time.sleep(sleep_time) returns
Waiting ==
    /\ pc = "waiting"
    /\ clock' = clock + SleepTime(WaitSlice, wait_seconds)
    /\ wait_seconds' = window.start_dt - clock'
    /\ pc' = "wait_start"
    /\ UNCHANGED <<raw_data, file, outcome, running, current_time,
                   collections_completed, window>>

\* _signal_handler, on SIGINT or SIGTERM while the method runs
SignalHandler ==
    /\ pc \notin {"done", "crashed"}
    /\ running
    /\ running' = FALSE
    /\ UNCHANGED <<raw_data, clock, file, outcome, pc, current_time, wait_seconds,
                   collections_completed, window>>

\* the steps of the method itself
SchedStep == LoopTop \/ CollectCycle \/ Sleep \/ Sleeping \/ WaitStart \/ Waiting

NextSched ==
    LoopTop \/ CollectCycle \/ Sleep \/ Sleeping \/ WaitStart \/ Waiting \/ SignalHandler

\* the process keeps running: sleeps return and requests time out
SpecSched == InitSched /\ [][NextSched]_vars /\ WF_vars(SchedStep)

WindowOpen == IsWithinSchedule(clock, window.start_dt, window.end_dt)

\* the step of a collection that left no snapshot
NoSnapshotCycle == pc = "collect" /\ pc' # "collect" /\ outcome'.returned # "True"

ReturnedFalseCycle == pc = "collect" /\ pc' # "collect" /\ outcome'.returned = "False"

\* what a skipped cycle leaves behind
SkippedNotFatal ==
    /\ file' = file
    /\ collections_completed' = collections_completed
    /\ pc' # "crashed"
    /\ pc' = "sleep" \/ ~WindowOpen'
    /\ pc' = "sleep" => wait_seconds' = 60 * window.interval

\* C10: a cycle of the scheduler whose fetch failed or whose payload gave no
\* snapshot appends nothing and counts nothing, the loop goes on, and while
\* the window is open and no signal came a further collection is attempted,
\* one polling interval later.
C10_SkippedCycleNotFatal ==
    /\ [][NoSnapshotCycle => SkippedNotFatal]_vars
    /\ [](pc = "collect" /\ outcome # NoCall
             => SnapshotTime(clock) >= outcome.time + window.interval)
    /\ (pc = "sleep" /\ outcome.returned # "True")
           ~> (pc = "collect" \/ ~running \/ ~WindowOpen \/ clock >= Horizon)

\* a skipped cycle, and the next collection under way
C10_Witness ==
    /\ pc = "collect"
    /\ running
    /\ outcome # NoCall
    /\ outcome.returned = "False"

\* the claim of C10 for the cycles in which collect_single_snapshot returns False
Sched_ReturnedFalseNotFatal ==
    /\ [][ReturnedFalseCycle => SkippedNotFatal]_vars
    /\ [](pc = "collect" /\ outcome # NoCall
             => SnapshotTime(clock) >= outcome.time + window.interval)
    /\ (pc = "sleep" /\ outcome.returned = "False")
           ~> (pc = "collect" \/ ~running \/ ~WindowOpen \/ clock >= Horizon)


\* C11: a collection is started only at a time inside [start_dt, end_dt]:
\* none before start_dt and none after end_dt.
C11_CollectsInsideWindow ==
    pc = "collect" => window.start_dt <= clock /\ clock <= window.end_dt

\* a collection started after end_dt, the window being one whose end_dt is
\* earlier than its start_dt
C11_Witness ==
    /\ pc = "collect"
    /\ window.end_dt < window.start_dt
    /\ clock > window.end_dt
    /\ collections_completed > 0

\* the claim of C11 for the windows whose end follows their start
Sched_CollectsInsideNormalWindow ==
    window \in NormalWindows => C11_CollectsInsideWindow


\* the step of a collection that returned
CollectionReturned == pc = "collect" /\ pc' \notin {"collect", "crashed"}

\* C12: after a collection the scheduler stops at once, without sleeping for
\* the interval, when the next run (the time then plus the interval) falls
\* after end_dt.
C12_StopsBeforeLateRun ==
    [][CollectionReturned /\ GetNextRunTime(clock', window.interval) > window.end_dt
          => pc' = "done"]_vars

\* the sleep for a whole interval that ends after end_dt, in a window whose
\* end follows its start
C12_Witness ==
    /\ pc = "sleep"
    /\ window \in NormalWindows
    /\ outcome # NoCall
    /\ wait_seconds = 60 * window.interval
    /\ GetNextRunTime(clock, window.interval) > window.end_dt

\* what line 324 does: the scheduler stops after a collection exactly when
\* the time then is outside the window
Sched_StopsWhenWindowClosed ==
    [][CollectionReturned => (pc' = "done" <=> ~WindowOpen')]_vars


\* the loop has been left
LeftLoop == pc \in {"done", "crashed"}

\* C13: once a signal has set running to False the loop is left in the end,
\* from a collection, from the sleep between collections and from the wait
\* for the window; no collection is started but the one already chosen at
\* the loop top, and no sleep is begun: the one going on ends within its
\* slice, 5 s between collections and 60 s before the window.
C13_GracefulShutdown ==
    /\ [][~running => ~running']_vars
    /\ [][~running /\ pc' = "collect" => pc = "collect"]_vars
    /\ [][~running /\ pc' \in {"sleeping", "waiting"} => pc = pc']_vars
    /\ [][pc = "sleeping" => clock' - clock <= SleepSlice]_vars
    /\ [][pc = "waiting" => clock' - clock <= WaitSlice]_vars
    /\ [][~running /\ pc \notin {"sleeping", "waiting", "collect"} => clock' = clock]_vars
    /\ ~running ~> LeftLoop

\* the loop left on a signal: the window still open and part of the
\* interval not slept
C13_Witness ==
    /\ pc = "done"
    /\ ~running
    /\ WindowOpen
    /\ wait_seconds > 0
    /\ collections_completed > 0


\* the clock has passed both ends of the window
PastWindow == clock > window.end_dt /\ clock > window.start_dt

\* the step of the loop top, running set, with the clock past the window
LoopTopPastWindow == pc = "loop" /\ pc' # "loop" /\ running /\ PastWindow

\* C14: whatever start_dt and end_dt are, end_dt earlier than start_dt
\* included, the loop terminates once the clock has passed the end of the
\* window, no signal needed: the loop top that finds the clock past the
\* window ends the loop.
C14_TerminatesPastWindow == [][LoopTopPastWindow => pc' = "done"]_vars

\* a further collection started with the clock past both ends of the window
C14_Witness ==
    /\ pc = "collect"
    /\ running
    /\ PastWindow
    /\ collections_completed > 0

\* with end_dt earlier than start_dt the loop, once the clock has reached
\* start_dt, ends on a signal or an exception only
Sched_OvernightNeverEnds ==
    window \in OvernightWindows /\ running /\ clock >= window.start_dt => pc # "done"

\* the claim of C14 for the windows whose end follows their start
Sched_NormalWindowTerminates ==
    /\ [][LoopTopPastWindow /\ window \in NormalWindows => pc' = "done"]_vars
    /\ window \in NormalWindows => <>LeftLoop


\* the collection of this step returned True and left its record last in the file
Persisted ==
    /\ Saved(outcome'.io)
    /\ file' = ListFile(Append(LoadExisting(file), outcome'.result.snapshot))

\* C15: collect_single_snapshot returns True only when _save_data has
\* stored its snapshot, so the count reported at the end of a session is
\* the number of records the session added to the stored history.
C15_CountsPersisted ==
    /\ [][CollectionReturned /\ collections_completed' # collections_completed
             => Persisted]_vars
    /\ [](pc = "done" => collections_completed = Len(file.entries))

\* a session that ends reporting collections and leaves no file
C15_Witness ==
    /\ pc = "done"
    /\ collections_completed > 0
    /\ file = Absent

\* what the count is: the collections that returned True; it is the number
\* of records added when every write succeeds
Sched_CountsReturnedTrue ==
    /\ [][CollectionReturned
             => (collections_completed' = collections_completed + 1
                    <=> outcome'.returned = "True")]_vars
    /\ [][CollectionReturned /\ outcome'.io.write # "open_error"
             /\ outcome'.io.write # "dump_error"
             => (collections_completed' # collections_completed <=> Persisted)]_vars


====
